---- MODULE Spec2Model ----
(***************************************************************************)
(* SwimmingRobot (Robots/HoneySwimmer_v2.py): the three-link swimmer whose *)
(* joint angles a1, a2 are driven by commanded joint velocities and whose  *)
(* pose (body_x, x, y, theta) follows by integrating the Jacobian field.   *)
(*                                                                         *)
(* Numbers.  The program computes in floating point; the model computes in *)
(* exact rationals <<n, d>> (d > 0, lowest terms), in radians and seconds. *)
(* math.pi is the rational 22/7, so an angle of the model stands for the   *)
(* same multiple of pi in the program.  The joint angles obey da/dt =      *)
(* adot, so the ODE solve returns a + adot * t for them.  The pose after   *)
(* an integration with a non-zero action over a non-zero time is the       *)
(* solution of a trigonometric field that has no rational form: the model  *)
(* gives it no number and keeps it as the term odeint(field, v0, action,   *)
(* t) that names what was solved.  A zero action or a zero time leaves the *)
(* pose where it is, as in the code.                                       *)
(***************************************************************************)
EXTENDS Integers, Sequences, FiniteSets, TLC

VARIABLES body_x, x, y, theta, a1, a2, a1dot, a2dot, time,
          t_interval, timestep, state, ops, call

vars == <<body_x, x, y, theta, a1, a2, a1dot, a2dot, time,
          t_interval, timestep, state, ops, call>>

----------------------------------------------------------------------------
(* Rational arithmetic: the float operators +, -, *, /, <, abs, min, floor *)

AbsInt(n) == IF n < 0 THEN -n ELSE n

RECURSIVE GCD(_, _)
GCD(m, n) == IF n = 0 THEN m ELSE GCD(n, m % n)

\* n/d divided through by g
Reduce(n, d, g) ==
    IF d < 0 THEN <<(-n) \div g, (-d) \div g>> ELSE <<n \div g, d \div g>>

Rat(n, d) == Reduce(n, d, GCD(AbsInt(n), AbsInt(d)))

Zero == <<0, 1>>
One == <<1, 1>>
FromInt(n) == <<n, 1>>

Neg(p) == <<-p[1], p[2]>>

\* p + q over the common denominator L
AddOver(p, q, L) == Rat(p[1] * (L \div p[2]) + q[1] * (L \div q[2]), L)

Add(p, q) == AddOver(p, q, (p[2] \div GCD(p[2], q[2])) * q[2])

Sub(p, q) == Add(p, Neg(q))

\* p * q with the common factors g1 of p[1], q[2] and g2 of q[1], p[2] removed
MulBy(p, q, g1, g2) ==
    <<(p[1] \div g1) * (q[1] \div g2), (p[2] \div g2) * (q[2] \div g1)>>

Mul(p, q) ==
    IF p[1] = 0 \/ q[1] = 0 THEN Zero
    ELSE MulBy(p, q, GCD(AbsInt(p[1]), q[2]), GCD(AbsInt(q[1]), p[2]))

\* p / q for q # 0 (the callers model ZeroDivisionError themselves)
Div(p, q) == Mul(p, IF q[1] > 0 THEN <<q[2], q[1]>> ELSE <<-q[2], -q[1]>>)

Abs(p) == <<AbsInt(p[1]), p[2]>>

Floor(p) == p[1] \div p[2]

\* p < q, by comparing the continued fractions (no cross products)
RECURSIVE Less(_, _)
Less(p, q) ==
    IF (p[1] \div p[2]) # (q[1] \div q[2]) THEN (p[1] \div p[2]) < (q[1] \div q[2])
    ELSE IF q[1] % q[2] = 0 THEN FALSE
    ELSE IF p[1] % p[2] = 0 THEN TRUE
    ELSE Less(<<q[2], q[1] % q[2]>>, <<p[2], p[1] % p[2]>>)

Greater(p, q) == Less(q, p)
Leq(p, q) == ~Less(q, p)
Min(p, q) == IF Less(q, p) THEN q ELSE p

----------------------------------------------------------------------------
(* Constants of the program *)

Pi == <<22, 7>>
HalfPi == <<11, 7>>
TwoPi == <<44, 7>>
PiTimes(n, d) == Mul(Rat(n, d), Pi)

\* 1e-7 s
SplitTolerance == <<1, 10000000>>

\* 1e-9 rad of the program, in the radians of Pi = 22/7: 1e-9 * (22/7) / pi,
\* that is 1 / (1e9 * 7 * pi / 22) = 1 / 999597662.5
RoundTolerance == <<1, 999597663>>

----------------------------------------------------------------------------
(* Bounds and inputs *)

MaxOps == 2

\* t_interval of the constructed robot: a fine interval of 5e-8 s, the
\* demo's 0.5 s, and a long one of 3 s
FineInterval == Rat(1, 20000000)
DemoInterval == Rat(1, 2)
LongInterval == FromInt(3)
Intervals == {FineInterval, DemoInterval, LongInterval}

\* initial heading handed to the constructor
Headings == {Zero, Neg(Pi), PiTimes(7, 2)}

\* timestep counts handed to move
Timesteps == {0, 1, 2}

\* joint angles handed to set_state
StatePairs == { <<PiTimes(1, 4), PiTimes(-1, 4)>>,
                <<Neg(Pi), Zero>>,
                <<PiTimes(3, 2), HalfPi>> }

\* values random.uniform(-pi/2, pi/2) returns
Draws == {Neg(HalfPi), Zero, HalfPi}

\* commanded joint velocities (a1dot, a2dot) tried on a robot of interval T:
\* rest and the demo's (0, pi/2) everywhere; at 0.5 s also the demo's
\* (0, -pi/2), a pair that drives a1 up by pi/4 in 0.3 s and a2 down by
\* pi/4 in 0.1 s, and a pair that drives a1 down by pi/4 in 0.25 s while a2
\* keeps moving; at 3 s a slow pair that needs 5 s for pi/4
ActionsAt(T) ==
    { <<Zero, Zero>>, <<Zero, HalfPi>> }
    \cup (IF T = DemoInterval
            THEN { <<Zero, Neg(HalfPi)>>, <<PiTimes(5, 6), PiTimes(-5, 2)>>,
                   <<Neg(Pi), Neg(HalfPi)>> }
            ELSE {})
    \cup (IF T = LongInterval
            THEN { <<PiTimes(-1, 20), PiTimes(1, 20)>> }
            ELSE {})

----------------------------------------------------------------------------
(* The robot object *)

robot == [body_x |-> body_x, x |-> x, y |-> y, theta |-> theta,
          a1 |-> a1, a2 |-> a2, a1dot |-> a1dot, a2dot |-> a2dot,
          time |-> time, t_interval |-> t_interval, timestep |-> timestep,
          state |-> state]

Store(r) ==
    /\ body_x' = r.body_x
    /\ x' = r.x
    /\ y' = r.y
    /\ theta' = r.theta
    /\ a1' = r.a1
    /\ a2' = r.a2
    /\ a1dot' = r.a1dot
    /\ a2dot' = r.a2dot
    /\ time' = r.time
    /\ t_interval' = r.t_interval
    /\ timestep' = r.timestep
    /\ state' = r.state

NoAction == <<Zero, Zero>>

Call(op, outcome, action, n, flag, pre, integ, t1a, t2a, ret) ==
    [op |-> op, outcome |-> outcome, action |-> action, timestep |-> n,
     flag |-> flag, pre |-> pre, integ |-> integ, a1_t |-> t1a, a2_t |-> t2a,
     ret |-> ret]

\* __init__(theta, a1, a2, t_interval): the other parameters at their defaults
Init ==
    /\ body_x = Zero
    /\ x = Zero
    /\ y = Zero
    /\ theta \in Headings
    /\ a1 = PiTimes(-1, 4)
    /\ a2 = PiTimes(1, 4)
    /\ a1dot = Zero
    /\ a2dot = Zero
    /\ time = Zero
    /\ t_interval \in Intervals
    /\ timestep = 1
    /\ state = <<a1, a2>>
    /\ ops = 0
    /\ call = Call("init", "ok", NoAction, 1, FALSE, robot, <<>>, Zero, Zero, <<a1, a2>>)

set_state(r, na1, na2) == [r EXCEPT !.a1 = na1, !.a2 = na2, !.state = <<na1, na2>>]

SetState ==
    /\ ops < MaxOps
    /\ \E p \in StatePairs :
          /\ Store(set_state(robot, p[1], p[2]))
          /\ call' = Call("set_state", "ok", NoAction, timestep, FALSE, robot,
                          <<>>, Zero, Zero, <<>>)
    /\ ops' = ops + 1

\* u1, u2: the two draws of random.uniform(-pi/2, pi/2)
randomize_state(r, enforce_opposite_angle_signs, u1, u2) ==
    [r EXCEPT !.a1 = u1, !.a2 = u2, !.state = <<u1, u2>>]

\* the robot and the record of the call after randomize_state left robot r
Randomized(r, pre, flag) ==
    /\ Store(r)
    /\ call' = Call("randomize_state", "ok", NoAction, pre.timestep, flag, pre,
                    <<>>, Zero, Zero, r.state)

RandomizeState ==
    /\ ops < MaxOps
    /\ \E flag \in BOOLEAN, u1 \in Draws, u2 \in Draws :
          Randomized(randomize_state(robot, flag, u1, u2), robot, flag)
    /\ ops' = ops + 1

----------------------------------------------------------------------------
(* move and its helpers *)

\* Python's a % m (the result takes the sign of m)
PyMod(a, m) == Sub(a, Mul(m, FromInt(Floor(Div(a, m)))))

\* A field of the pose is a number <<n, d>> or the value odeint returned for
\* it, kept as a term of what was solved: the field, the start vector v0 =
\* (body_x, x, y, theta, a1, a2), the action and the time
IsNumber(v) == Len(v) = 2

odeint(field, r, action, t) ==
    <<"odeint", field, <<r.body_x, r.x, r.y, r.theta, r.a1, r.a2>>, action, t>>

IsSolution(v) == Len(v) = 5

\* the heading enforce_angle_range leaves for a solved heading v: v brought
\* into [-pi, pi] by lines 221-228
Renormalised(v) == <<"enforce_angle_range", v, Neg(Pi), Pi>>

IsRenormalised(v) == Len(v) = 4

\* lines 223-224 and 227-228: the second correction after the modulo
WrapAbove(w) == IF Greater(w, Pi) THEN Sub(w, TwoPi) ELSE w
WrapBelow(w) == IF Less(w, Neg(Pi)) THEN Add(w, TwoPi) ELSE w

\* fault variant of enforce_angle_range: the branch for angles below -pi is
\* missing
EnforceAngleRangeAboveOnly(angle) ==
    IF IsRenormalised(angle) THEN angle
    ELSE IF IsSolution(angle) THEN Renormalised(angle)
    ELSE IF Greater(angle, Pi) THEN WrapAbove(PyMod(angle, TwoPi))
    ELSE angle

\* the value enforce_angle_range stores back for an angle; a heading that is
\* already renormalised is within [-pi, pi] and is stored back as it is
enforce_angle_range(angle) ==
    IF IsRenormalised(angle) THEN angle
    ELSE IF IsSolution(angle) THEN Renormalised(angle)
    ELSE IF Greater(angle, Pi) THEN WrapAbove(PyMod(angle, TwoPi))
    ELSE IF Less(angle, Neg(Pi)) THEN WrapBelow(PyMod(angle, Neg(TwoPi)))
    ELSE angle

RoundToLimit(a) ==
    IF Less(Abs(Sub(a, HalfPi)), RoundTolerance) THEN HalfPi
    ELSE IF Less(Abs(Add(a, HalfPi)), RoundTolerance) THEN Neg(HalfPi)
    ELSE a

round_angles_to_limits(r) ==
    [r EXCEPT !.a1 = RoundToLimit(r.a1), !.a2 = RoundToLimit(r.a2)]

WithinLimits(a) == Leq(Neg(HalfPi), a) /\ Leq(a, HalfPi)

\* TRUE when check_angles returns, FALSE when it raises
check_angles(r) == WithinLimits(r.a1) /\ WithinLimits(r.a2)

\* the final sample of odeint over [0, t]: nothing is solved for a zero time
\* (lines 128-129), and a zero action makes the field zero
perform_integration(r, action, t) ==
    IF t = Zero
        THEN [body_x |-> r.body_x, x |-> r.x, y |-> r.y, theta |-> r.theta,
              a1 |-> r.a1, a2 |-> r.a2]
    ELSE IF action = NoAction
        THEN [body_x |-> r.body_x, x |-> r.x, y |-> r.y, theta |-> r.theta,
              a1 |-> Add(r.a1, Mul(action[1], t)),
              a2 |-> Add(r.a2, Mul(action[2], t))]
    ELSE [body_x |-> odeint("body_x", r, action, t),
          x |-> odeint("x", r, action, t),
          y |-> odeint("y", r, action, t),
          theta |-> odeint("theta", r, action, t),
          a1 |-> Add(r.a1, Mul(action[1], t)),
          a2 |-> Add(r.a2, Mul(action[2], t))]

update_params(r, v, enforce_angle_limits) ==
    round_angles_to_limits(
        [r EXCEPT !.body_x = v.body_x, !.x = v.x, !.y = v.y,
                  !.theta = enforce_angle_range(v.theta),
                  !.a1 = IF enforce_angle_limits THEN v.a1
                         ELSE enforce_angle_range(v.a1),
                  !.a2 = IF enforce_angle_limits THEN v.a2
                         ELSE enforce_angle_range(v.a2)])

\* lines 253-254: the stored velocities from the weights c1, c2, c3
StoreAlphaDots(r, a1dot1, a2dot1, a1dot2, a2dot2, c1, c2, c3) ==
    [r EXCEPT !.a1dot = Mul(Add(Mul(c1, a1dot1), Mul(c2, a1dot2)), c3),
              !.a2dot = Mul(Add(Mul(c1, a2dot1), Mul(c2, a2dot2)), c3)]

\* line 244: whether c3 is the ratio (t1 + t2) / (t_interval * timestep)
ScalesByDuration(r, sum) == Less(sum, Add(r.t_interval, FromInt(r.timestep)))

\* lines 244-254, with sum = t1 + t2 and nominal = t_interval * timestep.
\* [raised, r]: raised when the division by nominal is a division by zero
AlphaDotsOver(r, a1dot1, a2dot1, t1, a1dot2, a2dot2, t2, sum, nominal) ==
    IF ScalesByDuration(r, sum) /\ nominal = Zero
        THEN [raised |-> TRUE, r |-> r]
    ELSE [raised |-> FALSE,
          r |-> StoreAlphaDots(r, a1dot1, a2dot1, a1dot2, a2dot2,
                    IF sum = Zero THEN Zero ELSE Div(t1, sum),
                    IF sum = Zero THEN Zero ELSE Div(t2, sum),
                    IF ScalesByDuration(r, sum) THEN Div(sum, nominal) ELSE One)]

update_alpha_dots(r, a1dot1, a2dot1, t1, a1dot2, a2dot2, t2) ==
    AlphaDotsOver(r, a1dot1, a2dot1, t1, a1dot2, a2dot2, t2,
                  Add(t1, t2), Mul(r.t_interval, FromInt(r.timestep)))

\* fault variant of a1_t: the crossing time is requested whatever the
\* projected angle, so a joint at rest divides by zero
a1_tUnguarded(r, adot, t, a) ==
    IF adot = Zero THEN [raised |-> TRUE, t |-> t]
    ELSE IF Less(a, Neg(HalfPi))
        THEN [raised |-> FALSE, t |-> Div(Sub(Neg(HalfPi), r.a1), adot)]
    ELSE IF Greater(a, HalfPi)
        THEN [raised |-> FALSE, t |-> Div(Sub(Zero, r.a1), adot)]
    ELSE [raised |-> FALSE, t |-> t]

\* lines 166-170: the integration time of joint 1, from its projected angle
\* a = self.a1 + a1dot * t.  [raised, t]: raised on a division by zero
a1_t(r, adot, t, a) ==
    IF Less(a, Neg(HalfPi))
        THEN IF adot = Zero THEN [raised |-> TRUE, t |-> t]
             ELSE [raised |-> FALSE, t |-> Div(Sub(Neg(HalfPi), r.a1), adot)]
    ELSE IF Greater(a, HalfPi)
        THEN IF adot = Zero THEN [raised |-> TRUE, t |-> t]
             ELSE [raised |-> FALSE, t |-> Div(Sub(Zero, r.a1), adot)]
    ELSE [raised |-> FALSE, t |-> t]

\* lines 166, 171-174: the integration time of joint 2
a2_t(r, adot, t, a) ==
    IF Less(a, Neg(HalfPi))
        THEN IF adot = Zero THEN [raised |-> TRUE, t |-> t]
             ELSE [raised |-> FALSE, t |-> Div(Sub(Zero, r.a2), adot)]
    ELSE IF Greater(a, HalfPi)
        THEN IF adot = Zero THEN [raised |-> TRUE, t |-> t]
             ELSE [raised |-> FALSE, t |-> Div(Sub(HalfPi, r.a2), adot)]
    ELSE [raised |-> FALSE, t |-> t]

Raised(r, outcome, integ, ta, tb) ==
    [r |-> r, outcome |-> outcome, integ |-> integ, a1_t |-> ta, a2_t |-> tb]

\* fault variant of Finish: self.state is not refreshed before the return
FinishStale(u, integ, ta, tb) ==
    IF u.raised THEN Raised(u.r, "ZeroDivisionError", integ, ta, tb)
    ELSE [r |-> u.r, outcome |-> "ok", integ |-> integ, a1_t |-> ta, a2_t |-> tb]

\* lines 210-212: the end of move; u is the result of update_alpha_dots.
\* integ lists the (action, duration) pairs handed to perform_integration
Finish(u, integ, ta, tb) ==
    IF u.raised THEN Raised(u.r, "ZeroDivisionError", integ, ta, tb)
    ELSE [r |-> [u.r EXCEPT !.state = <<u.r.a1, u.r.a2>>], outcome |-> "ok",
          integ |-> integ, a1_t |-> ta, a2_t |-> tb]

\* lines 198-209: one integration over t, then the commit
SingleMove(r, action, t, enforce_angle_limits, ta, tb) ==
    Finish(update_alpha_dots(
               update_params(r, perform_integration(r, action, t),
                             enforce_angle_limits),
               action[1], action[2], t, Zero, Zero, Zero),
           <<<<action, t>>>>, ta, tb)

\* lines 183-195: the second integration, from the committed first one p1,
\* with action2 over t2
SecondMove(p1, action, t1, action2, t2, ta, tb) ==
    Finish(update_alpha_dots(
               update_params(p1, perform_integration(p1, action2, t2), TRUE),
               action[1], action[2], t1, action2[1], action2[2], t2),
           <<<<action, t1>>, <<action2, t2>>>>, ta, tb)

\* fault variant of SplitMove: the second integration holds the joint with
\* the larger time and drives the one that has reached its limit
SplitMoveHoldsLater(r, action, ta, tb) ==
    SecondMove(update_params(r, perform_integration(r, action, Min(ta, tb)), TRUE),
               action, Min(ta, tb),
               IF Greater(tb, ta) THEN <<action[1], Zero>> ELSE <<Zero, action[2]>>,
               IF Greater(tb, ta) THEN Sub(tb, ta) ELSE Sub(ta, tb),
               ta, tb)

\* fault variant of SplitMove: the second integration runs for the whole of
\* the larger time, not for the difference of the two
SplitMoveRestarts(r, action, ta, tb) ==
    SecondMove(update_params(r, perform_integration(r, action, Min(ta, tb)), TRUE),
               action, Min(ta, tb),
               IF Greater(tb, ta) THEN <<Zero, action[2]>> ELSE <<action[1], Zero>>,
               IF Greater(tb, ta) THEN tb ELSE ta,
               ta, tb)

\* lines 179-195: t1 = min(a1_t, a2_t) with the full action, then the joint
\* with the larger time alone for the difference
SplitMove(r, action, ta, tb) ==
    SecondMove(update_params(r, perform_integration(r, action, Min(ta, tb)), TRUE),
               action, Min(ta, tb),
               IF Greater(tb, ta) THEN <<Zero, action[2]>> ELSE <<action[1], Zero>>,
               IF Greater(tb, ta) THEN Sub(tb, ta) ELSE Sub(ta, tb),
               ta, tb)

\* lines 164-204: the limit-enforced branch, c1 and c2 the results of a1_t, a2_t
LimitedMove(r, action, c1, c2) ==
    IF c1.raised \/ c2.raised
        THEN Raised(r, "ZeroDivisionError", <<>>, Zero, Zero)
    ELSE IF Greater(Abs(Sub(c1.t, c2.t)), SplitTolerance)
        THEN SplitMove(r, action, c1.t, c2.t)
    ELSE SingleMove(r, action, c1.t, TRUE, c1.t, c2.t)

\* lines 150-209, after self.timestep = timestep; t = timestep * t_interval
MoveFor(r, action, t, enforce_angle_limits) ==
    IF enforce_angle_limits /\ ~check_angles(r)
        THEN Raised(r, "Exception", <<>>, Zero, Zero)
    ELSE IF enforce_angle_limits
        THEN LimitedMove(r, action,
                         a1_t(r, action[1], t, Add(r.a1, Mul(action[1], t))),
                         a2_t(r, action[2], t, Add(r.a2, Mul(action[2], t))))
    ELSE SingleMove(r, action, t, FALSE, t, t)

\* move(action, timestep, enforce_angle_limits) on robot r
move(r, action, n, enforce_angle_limits) ==
    MoveFor([r EXCEPT !.timestep = n], action, Mul(FromInt(n), r.t_interval),
            enforce_angle_limits)

\* the robot and the record of the call after a move with result m
Moved(m, pre, action, n, e) ==
    /\ Store(m.r)
    /\ call' = Call("move", m.outcome, action, n, e, pre, m.integ,
                    m.a1_t, m.a2_t, IF m.outcome = "ok" THEN m.r.state ELSE <<>>)

Move ==
    /\ ops < MaxOps
    /\ \E action \in ActionsAt(t_interval), n \in Timesteps, e \in BOOLEAN :
          Moved(move(robot, action, n, e), robot, action, n, e)
    /\ ops' = ops + 1

Next == SetState \/ RandomizeState \/ Move

Spec == Init /\ [][Next]_vars

----------------------------------------------------------------------------
(* DeepRobot.discretize (OpenAiGym/.../DeepRobot_env_Discrete.py), a static *)
(* function of a value and an interval; the robot takes no part in it      *)

\* values k/4 for k in -MaxQuarters .. MaxQuarters
MaxQuarters == 12

Values == { Rat(k, 4) : k \in -MaxQuarters .. MaxQuarters }

\* positive discretization intervals
DiscretizeIntervals == { Rat(1, 4), Rat(1, 2), One, Rat(3, 2), FromInt(2) }

Half == <<1, 2>>

\* fault variant of discretize: a remainder of exactly 0.5 keeps the floor
discretizeHalfDown(val, interval) ==
    IF Greater(Sub(Div(val, interval), FromInt(Floor(Div(val, interval)))), Half)
        THEN Mul(FromInt(Floor(Div(val, interval)) + 1), interval)
    ELSE Mul(FromInt(Floor(Div(val, interval))), interval)

\* lines 80-85, from quotient = val / interval and floor = math.floor(quotient)
DiscretizedFrom(quotient, floor, interval) ==
    IF Leq(Half, Sub(quotient, FromInt(floor)))
        THEN Mul(FromInt(floor + 1), interval)
    ELSE Mul(FromInt(floor), interval)

discretize(val, interval) ==
    DiscretizedFrom(Div(val, interval), Floor(Div(val, interval)), interval)

DiscretizeCall(val, interval, ret) ==
    [op |-> "discretize", val |-> val, interval |-> interval, ret |-> ret]

\* a robot as constructed, before any call of discretize
DiscretizeInit ==
    /\ body_x = Zero
    /\ x = Zero
    /\ y = Zero
    /\ theta = Zero
    /\ a1 = PiTimes(-1, 4)
    /\ a2 = PiTimes(1, 4)
    /\ a1dot = Zero
    /\ a2dot = Zero
    /\ time = Zero
    /\ t_interval = DemoInterval
    /\ timestep = 1
    /\ state = <<a1, a2>>
    /\ ops = 0
    /\ call = [op |-> "init"]

Discretize ==
    /\ \E val \in Values, interval \in DiscretizeIntervals :
          call' = DiscretizeCall(val, interval, discretize(val, interval))
    /\ UNCHANGED <<body_x, x, y, theta, a1, a2, a1dot, a2dot, time,
                   t_interval, timestep, state, ops>>

DiscretizeNext == Discretize

DiscretizeSpec == DiscretizeInit /\ [][DiscretizeNext]_vars

----------------------------------------------------------------------------
(* Properties *)

Sign(p) == IF p[1] > 0 THEN 1 ELSE IF p[1] < 0 THEN -1 ELSE 0

\* the last call was a move that returned normally
MoveReturned == call.op = "move" /\ call.outcome = "ok"

\* ... with enforce_angle_limits=True
LimitedMoveReturned == MoveReturned /\ call.flag

\* t_interval * timestep of the last move
NominalDuration == Mul(t_interval, FromInt(call.timestep))

\* the sum of the durations the last move handed to perform_integration
IntegratedDuration ==
    IF Len(call.integ) = 0 THEN Zero
    ELSE IF Len(call.integ) = 1 THEN call.integ[1][2]
    ELSE Add(call.integ[1][2], call.integ[2][2])

\* the last move split its step in two
SplitHappened == Greater(Abs(Sub(call.a1_t, call.a2_t)), SplitTolerance)

InClosedRange(a) == Leq(Neg(Pi), a) /\ Leq(a, Pi)
InHalfOpenRange(a) == Less(Neg(Pi), a) /\ Leq(a, Pi)

\* The heading after a move is a number, or a solved heading that has no
\* number in the model; of the latter the range formulas state that
\* enforce_angle_range was the last to store it.
HeadingInClosedRange ==
    IF IsNumber(theta) THEN InClosedRange(theta) ELSE IsRenormalised(theta)
HeadingInHalfOpenRange ==
    IF IsNumber(theta) THEN InHalfOpenRange(theta) ELSE IsRenormalised(theta)

\* C1: a limit-enforced move that starts with both joint angles in
\* [-pi/2, pi/2] and returns leaves both joint angles in [-pi/2, pi/2].
C1_ClampInvariant ==
    (LimitedMoveReturned /\ WithinLimits(call.pre.a1) /\ WithinLimits(call.pre.a2))
        => (WithinLimits(a1) /\ WithinLimits(a2))

\* C2 as stated: after a move that returned, theta is in (-pi, pi], and after
\* one without limit enforcement a1 and a2 are in (-pi, pi] too.
C2_WrapHalfOpen ==
    MoveReturned =>
        /\ HeadingInHalfOpenRange
        /\ ~call.flag => (InHalfOpenRange(a1) /\ InHalfOpenRange(a2))

\* C2 as amended: after a move that returned, theta is in the closed interval
\* [-pi, pi], and after one without limit enforcement a1 and a2 are too.
C2_WrapClosed ==
    MoveReturned =>
        /\ HeadingInClosedRange
        /\ ~call.flag => (InClosedRange(a1) /\ InClosedRange(a2))

\* a move without limit enforcement returned: it wrapped a1 from 3pi/2 to
\* -pi/2 and left the heading at exactly -pi
C2_Witness ==
    /\ MoveReturned
    /\ ~call.flag
    /\ call.pre.a1 = PiTimes(3, 2)
    /\ a1 = Neg(HalfPi)
    /\ theta = Neg(Pi)

\* C3: a limit-enforced move that finds a joint angle out of limits raises
\* and leaves every field of the robot as it was before the call.
C3_RaiseLeavesState ==
    (call.op = "move" /\ call.outcome = "Exception") => robot = call.pre

\* C4: a move that returns advances the elapsed time by the duration it
\* integrated.
C4_ElapsedTime ==
    MoveReturned => time = Add(call.pre.time, IntegratedDuration)

\* C5: after a limit-enforced move with a positive nominal duration, each
\* stored joint velocity times the nominal duration is the change of that
\* joint angle, up to the rounding tolerance.
C5_VelocityDisplacement ==
    (LimitedMoveReturned /\ call.timestep > 0) =>
        /\ Less(Abs(Sub(Mul(a1dot, NominalDuration), Sub(a1, call.pre.a1))),
                RoundTolerance)
        /\ Less(Abs(Sub(Mul(a2dot, NominalDuration), Sub(a2, call.pre.a2))),
                RoundTolerance)

\* C6: after a limit-enforced move that split, each stored joint velocity has
\* the sign of the commanded one (or is zero) and at most its magnitude.
C6_SplitVelocityBound ==
    (LimitedMoveReturned /\ SplitHappened) =>
        /\ Sign(a1dot) * Sign(call.action[1]) >= 0
        /\ Leq(Abs(a1dot), Abs(call.action[1]))
        /\ Sign(a2dot) * Sign(call.action[2]) >= 0
        /\ Leq(Abs(a2dot), Abs(call.action[2]))

\* C7: a move with t_interval * timestep = 0 whose angles pass the limit
\* check completes and leaves x, y, theta, a1 and a2 as they were.
C7_ZeroDuration ==
    (call.op = "move" /\ NominalDuration = Zero /\ call.outcome # "Exception") =>
        /\ call.outcome = "ok"
        /\ x = call.pre.x
        /\ y = call.pre.y
        /\ theta = call.pre.theta
        /\ a1 = call.pre.a1
        /\ a2 = call.pre.a2

\* C8: randomize_state with enforce_opposite_angle_signs=True leaves a1 and a2
\* in [-pi/2, pi/2] and, when neither is zero, with different signs.
C8_OppositeSigns ==
    (call.op = "randomize_state" /\ call.flag) =>
        /\ WithinLimits(a1)
        /\ WithinLimits(a2)
        /\ (a1 # Zero /\ a2 # Zero) => Sign(a1) # Sign(a2)

\* the last call was Scenario B: a limit-enforced move over a nominal 0.5 s
\* whose a1 would reach +pi/2 after 0.3 s and a2 -pi/2 after 0.1 s
ScenarioB ==
    /\ LimitedMoveReturned
    /\ NominalDuration = Rat(1, 2)
    /\ Sign(call.action[1]) = 1
    /\ Add(call.pre.a1, Mul(call.action[1], Rat(3, 10))) = HalfPi
    /\ Sign(call.action[2]) = -1
    /\ Add(call.pre.a2, Mul(call.action[2], Rat(1, 10))) = Neg(HalfPi)

\* C9: Scenario B performs exactly two integrations, the first over 0.1 s
\* with the commanded action, the second over 0.2 s with a1dot = 0.
C9_ScenarioB ==
    ScenarioB =>
        /\ Len(call.integ) = 2
        /\ call.integ[1] = <<call.action, Rat(1, 10)>>
        /\ call.integ[2][2] = Rat(1, 5)
        /\ call.integ[2][1][1] = Zero

\* C10: after set_state, randomize_state or a move that returned, the state
\* tuple is (a1, a2), and move and randomize_state returned that tuple.
C10_StateTuple ==
    (call.op \in {"set_state", "randomize_state", "move"} /\ call.outcome = "ok") =>
        /\ state = <<a1, a2>>
        /\ call.op # "set_state" => call.ret = <<a1, a2>>

\* a move returned after it changed both joint angles
C10_Witness ==
    /\ MoveReturned
    /\ a1 # call.pre.a1
    /\ a2 # call.pre.a2
    /\ call.ret = <<a1, a2>>

\* the angle a joint at a would reach at the constant rate adot after t
Projected(a, adot, t) == Add(a, Mul(adot, t))

\* ... is outside [-pi/2, pi/2]
LeavesLimits(a, adot, t) == ~WithinLimits(Projected(a, adot, t))

\* the limit a joint driven at adot moves toward
BoundToward(adot) == IF Sign(adot) > 0 THEN HalfPi ELSE Neg(HalfPi)

\* the time a joint at a driven at adot # 0 needs to reach that limit
CrossingTime(a, adot) == Div(Sub(BoundToward(adot), a), adot)

\* C11: in a limit-enforced move that returned, a joint whose angle would
\* leave [-pi/2, pi/2] over the nominal duration gets the crossing time
\* (bound - current angle) / commanded velocity, the bound being +pi/2 for a
\* joint moving up and -pi/2 for a joint moving down; for a1 and for a2.
C11_CrossingTime ==
    LimitedMoveReturned =>
        /\ LeavesLimits(call.pre.a1, call.action[1], NominalDuration)
              => call.a1_t = CrossingTime(call.pre.a1, call.action[1])
        /\ LeavesLimits(call.pre.a2, call.action[2], NominalDuration)
              => call.a2_t = CrossingTime(call.pre.a2, call.action[2])

\* the angle update_params commits for a joint at a after an integration at
\* adot over t with limit enforcement
Committed(a, adot, t) == RoundToLimit(Projected(a, adot, t))

\* the action of the second sub-step: the joint with the smaller time held
HeldAction == IF Less(call.a1_t, call.a2_t) THEN <<Zero, call.action[2]>>
              ELSE <<call.action[1], Zero>>

\* C12: a limit-enforced move whose times a1_t, a2_t differ by more than 1e-7
\* integrates twice: first the full action over t1 = min(a1_t, a2_t), then,
\* from the state committed after the first, over t2 = |a1_t - a2_t| with the
\* joint of the smaller time at zero velocity and the other as commanded.
C12_SplitStructure ==
    (LimitedMoveReturned /\ SplitHappened) =>
        /\ Len(call.integ) = 2
        /\ call.integ[1] = <<call.action, Min(call.a1_t, call.a2_t)>>
        /\ call.integ[2] = <<HeldAction, Abs(Sub(call.a1_t, call.a2_t))>>
        /\ a1 = Committed(Committed(call.pre.a1, call.action[1], call.integ[1][2]),
                          HeldAction[1], call.integ[2][2])
        /\ a2 = Committed(Committed(call.pre.a2, call.action[2], call.integ[1][2]),
                          HeldAction[2], call.integ[2][2])

\* a split move returned: a1 went down to -pi/2 in 0.25 s with a2 moving, then
\* a2 went on alone for the remaining 0.25 s
C12_Witness ==
    /\ LimitedMoveReturned
    /\ SplitHappened
    /\ call.integ = << <<call.action, Rat(1, 4)>>,
                       << <<Zero, Neg(HalfPi)>>, Rat(1, 4)>> >>
    /\ call.pre.a1 = PiTimes(-1, 4)
    /\ a1 = Neg(HalfPi)
    /\ a2 = Zero

\* the durations and the second action of the sub-steps of the last move
\* (t2 = 0 and no second action for a single integration)
SubStep1 == call.integ[1][2]
SubStep2 == IF Len(call.integ) = 2 THEN call.integ[2][2] ELSE Zero
SecondAction == IF Len(call.integ) = 2 THEN call.integ[2][1] ELSE NoAction

\* the time-weighted average of the sub-step velocities of joint i
WeightedAverage(i) ==
    Div(Add(Mul(SubStep1, call.action[i]), Mul(SubStep2, SecondAction[i])),
        IntegratedDuration)

\* ... scaled by (t1 + t2) / (t_interval * timestep) exactly when the move
\* integrated less than the nominal duration
RealizedVelocity(i) ==
    IF Less(IntegratedDuration, NominalDuration)
        THEN Mul(WeightedAverage(i), Div(IntegratedDuration, NominalDuration))
    ELSE WeightedAverage(i)

\* C13: after a move with a positive timestep that integrated over a non-zero
\* time, the stored (a1dot, a2dot) is the time-weighted average of the
\* sub-step actions, multiplied by (t1 + t2) / (t_interval * timestep) exactly
\* when t1 + t2 is less than t_interval * timestep.
C13_RealizedVelocity ==
    (MoveReturned /\ call.timestep > 0 /\ IntegratedDuration # Zero) =>
        /\ a1dot = RealizedVelocity(1)
        /\ a2dot = RealizedVelocity(2)

\* the angle of joint i before the last call
AngleBefore(i) == IF i = 1 THEN call.pre.a1 ELSE call.pre.a2

\* the time joint i needs to reach the limit it moves toward, the nominal
\* duration for a joint that stays within its limits
TimeToBound(i) ==
    IF LeavesLimits(AngleBefore(i), call.action[i], NominalDuration)
        THEN CrossingTime(AngleBefore(i), call.action[i])
    ELSE NominalDuration

\* the time at which the first of the two joints reaches its limit
FirstHitTime == Min(TimeToBound(1), TimeToBound(2))

\* the larger of the two times a1_t, a2_t of the last move
LaterTime == IF Less(call.a1_t, call.a2_t) THEN call.a2_t ELSE call.a1_t

\* C14 as stated: when a limit-enforced move splits, t1 + t2 is the time
\* required to reach the bound that is hit first.
C14_SumIsFirstHit ==
    (LimitedMoveReturned /\ SplitHappened) => IntegratedDuration = FirstHitTime

\* C14 as amended: when a limit-enforced move splits, t1 + t2 is the larger
\* of the two times a1_t, a2_t (the first sub-step alone lasts the smaller).
C14_SumIsLaterTime ==
    (LimitedMoveReturned /\ SplitHappened) =>
        /\ IntegratedDuration = LaterTime
        /\ SubStep1 = Min(call.a1_t, call.a2_t)

\* a split move returned: a2 reached +pi/2 after 0.5 s of a nominal 1 s and
\* the move integrated for the whole second
C14_Witness ==
    /\ LimitedMoveReturned
    /\ SplitHappened
    /\ call.a2_t = Rat(1, 2)
    /\ call.a1_t = One
    /\ FirstHitTime = Rat(1, 2)
    /\ IntegratedDuration = One
    /\ a2 = HalfPi

\* the angle and the integration time of joint i after the last move
AngleAfter(i) == IF i = 1 THEN a1 ELSE a2
JointTime(i) == IF i = 1 THEN call.a1_t ELSE call.a2_t

\* the last call was a limit-enforced move that passed the limit check and
\* commanded joint i to rest
RestingJoint(i) ==
    /\ call.op = "move"
    /\ call.flag
    /\ call.outcome # "Exception"
    /\ call.action[i] = Zero

\* what holds of a joint i at rest, j being the other joint: the times of
\* lines 166-174 were computed without an error and the move went on to
\* integrate; the only division by zero left is the one of a zero nominal
\* duration in update_alpha_dots, which does not depend on the velocities
\* (see C7); the time of joint i is the nominal duration; its angle is the
\* one before the move (an angle within 1e-9 of a limit is snapped onto it);
\* and the move integrates at least for the time of joint j
AtRest(i, j) ==
    /\ Len(call.integ) >= 1
    /\ call.outcome = "ZeroDivisionError" => NominalDuration = Zero
    /\ JointTime(i) = NominalDuration
    /\ AngleAfter(i) = RoundToLimit(AngleBefore(i))
    /\ Leq(JointTime(j), IntegratedDuration)

\* C15: in a limit-enforced move from angles within the limits, a joint
\* commanded to zero velocity causes no division by zero, is given the
\* nominal duration as its time (it never reaches a bound), keeps its angle,
\* and does not shorten the step below the time of the other joint.
C15_DegenerateSplit ==
    /\ RestingJoint(1) => AtRest(1, 2)
    /\ RestingJoint(2) => AtRest(2, 1)

\* a move over 3 s with a1 at rest returned: a2 reached +pi/2 after 0.5 s,
\* the move integrated for the whole 3 s and a1 is where it was
C15_Witness ==
    /\ LimitedMoveReturned
    /\ call.action[1] = Zero
    /\ call.action[2] = HalfPi
    /\ NominalDuration = FromInt(3)
    /\ call.a1_t = FromInt(3)
    /\ call.a2_t = Rat(1, 2)
    /\ IntegratedDuration = FromInt(3)
    /\ a1 = call.pre.a1
    /\ a2 = HalfPi

\* the last call was discretize
Discretized == call.op = "discretize"

\* its result is an integer multiple of the interval
IsMultiple == Div(call.ret, call.interval)[2] = 1

\* no multiple of the interval is nearer to the value than the result
IsNearest == Leq(Mul(FromInt(2), Abs(Sub(call.ret, call.val))), call.interval)

\* the value lies half-way between two multiples of the interval
HalfWay == Mul(FromInt(2), Abs(Sub(call.ret, call.val))) = call.interval

\* C16 as stated: discretize returns the multiple of the interval nearest to
\* the value, and of a half-way value the neighbour of the larger magnitude,
\* for positive and negative values.
C16_HalfAwayFromZero ==
    Discretized =>
        /\ IsMultiple
        /\ IsNearest
        /\ HalfWay => Greater(Abs(call.ret), Abs(call.val))

\* C16 as amended: discretize returns the multiple of the interval nearest to
\* the value, and of a half-way value the larger neighbour (toward plus
\* infinity), which for a negative value is the one of the smaller magnitude.
C16_HalfUp ==
    Discretized =>
        /\ IsMultiple
        /\ IsNearest
        /\ HalfWay => Greater(call.ret, call.val)

\* discretize(-0.75, 0.5) returned -0.5
C16_Witness ==
    /\ Discretized
    /\ call.val = Rat(-3, 4)
    /\ call.interval = Half
    /\ HalfWay
    /\ call.ret = Rat(-1, 2)

\* C17: in a limit-enforced move from angles within the limits, every
\* duration handed to perform_integration is at least zero and at most the
\* nominal duration t_interval * timestep, and so is their sum.
C17_DurationsBounded ==
    (call.op = "move" /\ call.flag /\ call.outcome # "Exception") =>
        /\ \A k \in 1 .. Len(call.integ) :
              /\ Leq(Zero, call.integ[k][2])
              /\ Leq(call.integ[k][2], NominalDuration)
        /\ Leq(IntegratedDuration, NominalDuration)

====
